---- MODULE Spec2Model ----
(***************************************************************************)
(* EmbeddingCache of property-embedding-service/src/services/              *)
(* embedding_cache.py: query normalisation, semantic cluster keys, the     *)
(* four-tier get_or_generate lookup, local eviction and expiry, the stats  *)
(* counters, clear_cache and preload_common_queries.                       *)
(*                                                                         *)
(* A query string is the sequence of the tokens between its blanks; two    *)
(* blanks in a row, or one at either end, leave the empty token "".        *)
(* A normalised string is the sequence of the words that ' '.join glues    *)
(* together (no word holds a space, so the two determine one another).     *)
(* xxh64 is taken to be injective on the strings of the model: a key is    *)
(* the pair of its prefix and the string that was hashed.                  *)
(* A vector is named by the text the embedding model encoded and by the    *)
(* time at which it encoded it.                                            *)
(* Money is counted in thousandths of a dollar, time in whole ticks.       *)
(***************************************************************************)
EXTENDS Integers, Sequences, FiniteSets, TLC

VARIABLES local_cache, redis, stats, embedding_model, max_local_cache_size,
          now, history, last, threads

vars == <<local_cache, redis, stats, embedding_model, max_local_cache_size,
          now, history, last, threads>>

(***************************************************************************)
(* Bounds of the model.                                                    *)
(***************************************************************************)
LocalCap == 2
CACHE_TTL == 2
MaxTime == 3
MaxRequests == 3
MaxLoad == 4
Elapsed == 1
NullCap == 3
MaxScript == 5
MaxTokens == 4
RaceCap == 1
MaxRaceCalls == 3

EMBEDDING_COST_PER_REQUEST == 1

(***************************************************************************)
(* Text: str.lower, the punctuation substitution, split, the stop words    *)
(* and sorted().                                                           *)
(***************************************************************************)
lower(tok) ==
  CASE tok = "Luxury" -> "luxury"
    [] tok = "London" -> "london"
    [] tok = "Modern" -> "modern"
    [] OTHER -> tok

\* re.sub(r'[^\w\s]', ' ', tok) followed by split(): the pieces of one token
PunctSplit(tok) ==
  CASE tok = "high-end" -> <<"high", "end">>
    [] OTHER -> <<tok>>

stop_words ==
  {"the", "a", "an", "in", "on", "at", "to", "for", "of", "with",
   "by", "from", "up", "about", "into", "through", "during",
   "before", "after", "above", "below", "between", "among",
   "near", "close", "around", "looking", "want", "need", "searching"}

concept_mapping ==
  << [concepts |-> {"flat", "apartment", "apt"}, cluster |-> "apartment"],
     [concepts |-> {"house", "home", "property"}, cluster |-> "house"],
     [concepts |-> {"studio", "bedsit"}, cluster |-> "studio"],
     [concepts |-> {"penthouse", "luxury flat"}, cluster |-> "penthouse"],
     [concepts |-> {"london", "central london", "london center"}, cluster |-> "london"],
     [concepts |-> {"manchester", "manchester city"}, cluster |-> "manchester"],
     [concepts |-> {"birmingham", "brum"}, cluster |-> "birmingham"],
     [concepts |-> {"cheap", "budget", "affordable", "low cost"}, cluster |-> "budget"],
     [concepts |-> {"luxury", "premium", "high-end", "expensive", "upmarket"}, cluster |-> "luxury"],
     [concepts |-> {"1 bed", "one bedroom", "1bedroom", "single bedroom"}, cluster |-> "1bed"],
     [concepts |-> {"2 bed", "two bedroom", "2bedroom", "double bedroom"}, cluster |-> "2bed"],
     [concepts |-> {"3 bed", "three bedroom", "3bedroom"}, cluster |-> "3bed"],
     [concepts |-> {"4 bed", "four bedroom", "4bedroom"}, cluster |-> "4bed"] >>

\* the words of the model in the order of Python's string comparison
WordOrder ==
  <<"", "1", "1bed", "1bedroom", "apartment", "apt", "bed", "bedroom", "end",
    "flat", "high", "in", "london", "luxury", "modern", "one", "premium",
    "query1", "query2", "query3", "the">>

Rank(w) == CHOOSE i \in 1..Len(WordOrder) : WordOrder[i] = w

RECURSIVE Flatten(_)
Flatten(ss) == IF ss = <<>> THEN <<>> ELSE Head(ss) \o Flatten(Tail(ss))

RECURSIVE InsertSorted(_, _)
InsertSorted(w, s) ==
  IF s = <<>> THEN <<w>>
  ELSE IF Rank(w) < Rank(Head(s)) THEN <<w>> \o s
  ELSE <<Head(s)>> \o InsertSorted(w, Tail(s))

\* sorted(words): stable, ascending
RECURSIVE sorted(_)
sorted(s) ==
  IF s = <<>> THEN <<>>
  ELSE InsertSorted(s[Len(s)], sorted(SubSeq(s, 1, Len(s) - 1)))

\* stop words kept in the key
IsWord_keep_all(w) == TRUE

\* the empty pieces that split() never yields are kept
IsWord_keep_blank(w) == w \notin stop_words

IsWord(w) == w # "" /\ w \notin stop_words

_normalize_query(query) ==
  LET pieces == Flatten([i \in 1..Len(query) |-> PunctSplit(lower(query[i]))])
      words  == SelectSeq(pieces, IsWord)
  IN  sorted(words)

AllQueries ==
  {<<"luxury", "apartment", "London">>, <<"Luxury", "apartment", "in", "London">>,
   <<"premium", "flat", "london">>, <<"query1">>, <<"query2">>, <<"query3">>}

NormTable == [query \in AllQueries |-> _normalize_query(query)]

\* _normalize_query(query), looked up for the queries of the cache runs
Normalized(query) ==
  IF query \in AllQueries THEN NormTable[query] ELSE _normalize_query(query)

get_cache_key(query) == [prefix |-> "emb", digest |-> Normalized(query)]

\* no word has a label
ConceptOf_none(word, i) == <<>>

\* the cluster label of a word, or <<>> when no synonym set holds it
RECURSIVE ConceptOf(_, _)
ConceptOf(word, i) ==
  IF i > Len(concept_mapping) THEN <<>>
  ELSE IF word \in concept_mapping[i].concepts THEN <<concept_mapping[i].cluster>>
  ELSE ConceptOf(word, i + 1)

InSeq(x, s) == \E i \in 1..Len(s) : s[i] = x

RECURSIVE ClusterWords(_, _)
ClusterWords(words, clustered_words) ==
  IF words = <<>> THEN clustered_words
  ELSE LET c == ConceptOf(Head(words), 1)
       IN  IF c = <<>>
           THEN ClusterWords(Tail(words), Append(clustered_words, Head(words)))
           ELSE IF InSeq(c[1], clustered_words)
                THEN ClusterWords(Tail(words), clustered_words)
                ELSE ClusterWords(Tail(words), Append(clustered_words, c[1]))

clustered_query(query) == sorted(ClusterWords(Normalized(query), <<>>))

ClusterTable == [query \in AllQueries |-> clustered_query(query)]

\* one cluster for every query
_get_semantic_cluster_key_one(query) == [prefix |-> "cluster", digest |-> <<>>]

_get_semantic_cluster_key(query) ==
  [prefix |-> "cluster",
   digest |-> IF query \in AllQueries THEN ClusterTable[query]
              ELSE clustered_query(query)]

(***************************************************************************)
(* The queries of the model, and the vector the embedding model returns.   *)
(***************************************************************************)
QLuxury   == <<"luxury", "apartment", "London">>
QLuxuryIn == <<"Luxury", "apartment", "in", "London">>
QPremium  == <<"premium", "flat", "london">>
Query1    == <<"query1">>
Query2    == <<"query2">>
Query3    == <<"query3">>

Queries == {QLuxury, QPremium}
LoadQueries == {QLuxury, QLuxuryIn, QPremium, Query1, Query2}
NullQueries == {Query1, Query2, Query3}

\* embedding_model.encode(query) at time t: the vector of the original query
\* text, with the time of its making
encode(query, t) == [of |-> query, at |-> t]

(***************************************************************************)
(* The local table: a dict, kept in insertion order.                       *)
(***************************************************************************)
CachedEmbedding(key, data, timestamp, ttl, hit_count, query_cluster) ==
  [key |-> key, data |-> data, timestamp |-> timestamp, ttl |-> ttl,
   hit_count |-> hit_count, query_cluster |-> query_cluster]

IndexOf(lc, key) ==
  IF \E i \in 1..Len(lc) : lc[i].key = key
  THEN CHOOSE i \in 1..Len(lc) : lc[i].key = key
  ELSE 0

RemoveAt(lc, i) == SubSeq(lc, 1, i - 1) \o SubSeq(lc, i + 1, Len(lc))

\* the oldest entry whatever its hit_count
MinHitIndex_oldest(lc) == 1

\* min(local_cache.keys(), key=hit_count): the first key of minimal hit_count
MinHitIndex(lc) ==
  CHOOSE i \in 1..Len(lc) :
    /\ \A j \in 1..Len(lc) : lc[i].hit_count <= lc[j].hit_count
    /\ \A j \in 1..(i - 1) : lc[j].hit_count > lc[i].hit_count

\* local_cache[cache_key] = entry: in place when the key is there, else last
DictSet(lc, entry) ==
  LET i == IndexOf(lc, entry.key)
  IN  IF i = 0 THEN Append(lc, entry) ELSE [lc EXCEPT ![i] = entry]

\* the entry is not kept
_store_in_local_cache_skip(lc, cap, t, cache_key, embedding, cluster_key) == lc

\* insert with no eviction
_store_in_local_cache_no_evict(lc, cap, t, cache_key, embedding, cluster_key) ==
  DictSet(lc, CachedEmbedding(cache_key, embedding, t, CACHE_TTL, 0, cluster_key))

_store_in_local_cache(lc, cap, t, cache_key, embedding, cluster_key) ==
  LET kept == IF Len(lc) >= cap THEN RemoveAt(lc, MinHitIndex(lc)) ELSE lc
  IN  DictSet(kept, CachedEmbedding(cache_key, embedding, t, CACHE_TTL, 0, cluster_key))

\* entries live for ever
_is_cache_expired_never(cached, t) == FALSE

_is_cache_expired(cached, t) == t - cached.timestamp > cached.ttl

(***************************************************************************)
(* The persistent store: a function from the keys it holds to the pickled  *)
(* CachedEmbedding, each kept for the seconds given to setex.              *)
(***************************************************************************)
StoreLive(payload, t) == t < payload.timestamp + payload.ttl

\* what an except clause lets through: TRUE when the exception leaves it
ExceptExact(raised) == FALSE
ExceptCluster(raised) == FALSE
\* a bare raise in place of the warning
ExceptStore_raise(raised) == raised

ExceptStore(raised) == FALSE
ExceptClear_raise(raised) == raised

ExceptClear(raised) == FALSE

\* redis.get(key) and pickle.loads: r = "err" is a call that raises
redis_get(rd, key, r, t) ==
  [raised |-> r = "err",
   val    |-> IF r # "err" /\ key \in DOMAIN rd /\ StoreLive(rd[key], t)
              THEN <<rd[key].data>> ELSE <<>>]

setex(rd, key, payload) ==
  [k \in DOMAIN rd \cup {key} |-> IF k = key THEN payload ELSE rd[k]]

\* setex is never called
_store_in_redis_cache_dropped(rd, t, cache_key, embedding, fails) ==
  [redis |-> rd, raised |-> FALSE]

_store_in_redis_cache(rd, t, cache_key, embedding, fails) ==
  [redis  |-> IF fails THEN rd
              ELSE setex(rd, cache_key,
                         [data |-> embedding, timestamp |-> t,
                          ttl |-> CACHE_TTL, hit_count |-> 0]),
   raised |-> ExceptStore(fails)]

(***************************************************************************)
(* get_or_generate.  st holds local_cache, redis and stats; env holds the  *)
(* embedding model flag, the capacity and the clock; f holds what the      *)
(* collaborators do during this call: r1, r2 the two store reads, w1, w2   *)
(* whether the write of the exact key and of the cluster key fails, enc    *)
(* the embedding model, el the seconds that time.time() measures.          *)
(***************************************************************************)
Result(lc, rd, stt, outcome, value, probes, encodes, tier, writes) ==
  [local_cache |-> lc, redis |-> rd, stats |-> stt, outcome |-> outcome,
   value |-> value, probes |-> probes, encodes |-> encodes, tier |-> tier,
   writes |-> writes]

\* a setex call of this get_or_generate: its key and whether it went through
Write(key, fails) == [key |-> key, ok |-> ~fails]

\* the tier a store read probed and what the read gave
Probe(tier, got) ==
  [tier |-> tier,
   res  |-> IF got.raised THEN "err" ELSE IF got.val # <<>> THEN "hit" ELSE "none"]

\* a hit that saves no cost
RecordHit_free(stt, el) ==
  [stt EXCEPT !.hits = @ + 1, !.time_saved = @ + el]

\* a hit that leaves the counter alone
RecordHit_uncounted(stt, el) ==
  [stt EXCEPT !.cost_saved = @ + EMBEDDING_COST_PER_REQUEST,
              !.time_saved = @ + el]

RecordHit(stt, el) ==
  [stt EXCEPT !.hits = @ + 1,
              !.cost_saved = @ + EMBEDDING_COST_PER_REQUEST,
              !.time_saved = @ + el]

\* a miss counted twice
RecordMiss_twice(stt) == [stt EXCEPT !.misses = @ + 2]

RecordMiss(stt) == [stt EXCEPT !.misses = @ + 1]

\* a zero vector in place of the error when no model is configured
Generate_zero_vector(lc, rd, stt, env, query, f, probes) ==
  IF ~env.model
  THEN Result(lc, rd, stt, "ok", <<[of |-> <<>>, at |-> env.now]>>, probes, 0, "none", <<>>)
  ELSE Result(lc, rd, RecordMiss(stt), "ok", <<encode(query, env.now)>>, probes, 1,
              "generate", <<>>)

\* the miss counted, and the local entry made, before the model is called
Generate_miss_first(lc, rd, stt, env, query, f, probes) ==
  LET cache_key   == get_cache_key(query)
      cluster_key == _get_semantic_cluster_key(query)
      embedding   == encode(query, env.now)
      lc1 == _store_in_local_cache(lc, env.cap, env.now, cache_key, embedding, <<cluster_key>>)
      s1  == _store_in_redis_cache(rd, env.now, cache_key, embedding, f.w1)
      s2  == _store_in_redis_cache(s1.redis, env.now, cluster_key, embedding, f.w2)
  IN  IF ~env.model
      THEN Result(lc, rd, stt, "ValueError", <<>>, probes, 0, "none", <<>>)
      ELSE IF f.enc = "fail"
      THEN Result(lc1, rd, RecordMiss(stt), "EncodeError", <<>>, probes, 1, "none", <<>>)
      ELSE Result(lc1, s2.redis, RecordMiss(stt), "ok", <<embedding>>, probes, 1,
                  "generate", <<Write(cache_key, f.w1), Write(cluster_key, f.w2)>>)

Generate(lc, rd, stt, env, query, f, probes) ==
  LET cache_key   == get_cache_key(query)
      cluster_key == _get_semantic_cluster_key(query)
      embedding   == encode(query, env.now)
      lc1 == _store_in_local_cache(lc, env.cap, env.now, cache_key, embedding, <<cluster_key>>)
      s1  == _store_in_redis_cache(rd, env.now, cache_key, embedding, f.w1)
      s2  == _store_in_redis_cache(s1.redis, env.now, cluster_key, embedding, f.w2)
  IN  IF ~env.model
      THEN Result(lc, rd, stt, "ValueError", <<>>, probes, 0, "none", <<>>)
      ELSE IF f.enc = "fail"
      THEN Result(lc, rd, stt, "EncodeError", <<>>, probes, 1, "none", <<>>)
      ELSE IF s1.raised
      THEN Result(lc1, s1.redis, stt, "StoreError", <<>>, probes, 1, "none",
                  <<Write(cache_key, f.w1)>>)
      ELSE IF s2.raised
      THEN Result(lc1, s2.redis, stt, "StoreError", <<>>, probes, 1, "none",
                  <<Write(cache_key, f.w1), Write(cluster_key, f.w2)>>)
      ELSE Result(lc1, s2.redis, RecordMiss(stt), "ok", <<embedding>>, probes, 1,
                  "generate", <<Write(cache_key, f.w1), Write(cluster_key, f.w2)>>)

\* a cluster hit that is not written back to the store
ClusterTier_no_backfill(lc, rd, stt, env, query, f, probes) ==
  LET got  == redis_get(rd, _get_semantic_cluster_key(query), f.r2, env.now)
      seen == Append(probes, Probe("cluster", got))
  IN  IF got.val # <<>>
      THEN Result(_store_in_local_cache(lc, env.cap, env.now, get_cache_key(query),
                                        got.val[1], <<>>),
                  rd, RecordHit(stt, f.el), "ok", got.val, seen, 0, "cluster", <<>>)
      ELSE Generate(lc, rd, stt, env, query, f, seen)

ClusterTier(lc, rd, stt, env, query, f, probes) ==
  LET cache_key   == get_cache_key(query)
      cluster_key == _get_semantic_cluster_key(query)
      got  == redis_get(rd, cluster_key, f.r2, env.now)
      seen == Append(probes, Probe("cluster", got))
      lc1  == _store_in_local_cache(lc, env.cap, env.now, cache_key, got.val[1], <<>>)
      s1   == _store_in_redis_cache(rd, env.now, cache_key, got.val[1], f.w1)
  IN  IF got.raised
      THEN IF ExceptCluster(TRUE)
           THEN Result(lc, rd, stt, "StoreError", <<>>, seen, 0, "none", <<>>)
           ELSE Generate(lc, rd, stt, env, query, f, seen)
      ELSE IF got.val # <<>>
      THEN IF s1.raised
           THEN Result(lc1, s1.redis, stt, "StoreError", <<>>, seen, 0, "none",
                       <<Write(cache_key, f.w1)>>)
           ELSE Result(lc1, s1.redis, RecordHit(stt, f.el), "ok", got.val, seen, 0,
                       "cluster", <<Write(cache_key, f.w1)>>)
      ELSE Generate(lc, rd, stt, env, query, f, seen)

\* an exact hit that is not copied to the local table
ExactTier_no_local(lc, rd, stt, env, query, f, probes) ==
  LET got  == redis_get(rd, get_cache_key(query), f.r1, env.now)
      seen == Append(probes, Probe("exact", got))
  IN  IF got.val # <<>>
      THEN Result(lc, rd, RecordHit(stt, f.el), "ok", got.val, seen, 0, "exact", <<>>)
      ELSE ClusterTier(lc, rd, stt, env, query, f, seen)

\* the exact key is never asked for
ExactTier_skipped(lc, rd, stt, env, query, f, probes) ==
  ClusterTier(lc, rd, stt, env, query, f, probes)

ExactTier(lc, rd, stt, env, query, f, probes) ==
  LET cache_key == get_cache_key(query)
      got  == redis_get(rd, cache_key, f.r1, env.now)
      seen == Append(probes, Probe("exact", got))
      lc1  == _store_in_local_cache(lc, env.cap, env.now, cache_key, got.val[1], <<>>)
  IN  IF got.raised
      THEN IF ExceptExact(TRUE)
           THEN Result(lc, rd, stt, "StoreError", <<>>, seen, 0, "none", <<>>)
           ELSE ClusterTier(lc, rd, stt, env, query, f, seen)
      ELSE IF got.val # <<>>
      THEN Result(lc1, rd, RecordHit(stt, f.el), "ok", got.val, seen, 0, "exact", <<>>)
      ELSE ClusterTier(lc, rd, stt, env, query, f, seen)

get_or_generate(st, env, query, f) ==
  LET cache_key == get_cache_key(query)
      lc == st.local_cache
      i  == IndexOf(lc, cache_key)
      seen == << [tier |-> "local",
                  res  |-> IF i = 0 THEN "none"
                           ELSE IF _is_cache_expired(lc[i], env.now) THEN "expired"
                           ELSE "hit"] >>
  IN  IF i # 0 /\ ~_is_cache_expired(lc[i], env.now)
      THEN Result([lc EXCEPT ![i].hit_count = @ + 1], st.redis,
                  RecordHit(st.stats, f.el), "ok", <<lc[i].data>>, seen, 0, "local", <<>>)
      ELSE IF i # 0
      THEN ExactTier(RemoveAt(lc, i), st.redis, st.stats, env, query, f, seen)
      ELSE ExactTier(lc, st.redis, st.stats, env, query, f, seen)

(***************************************************************************)
(* clear_cache.  deleted is the set of store keys that redis.delete has    *)
(* removed when the loops end: all of them, or fewer when a store call     *)
(* raises; the emb:* keys are scanned before the cluster:* keys.           *)
(***************************************************************************)
CacheStats == [hits |-> 0, misses |-> 0, cost_saved |-> 0, time_saved |-> 0]

\* round(n / d) as Python rounds: to the nearest, a tie to the even side
RoundHalfEven(n, d) ==
  LET q == n \div d
      r == n % d
  IN  IF 2 * r < d THEN q
      ELSE IF 2 * r > d THEN q + 1
      ELSE IF q % 2 = 0 THEN q ELSE q + 1

\* the rate over the misses in place of the hits
hit_rate_of_misses(hits, misses) ==
  IF hits + misses > 0 THEN RoundHalfEven(misses * 10000, hits + misses) ELSE 0

\* round(hits / total_requests * 100, 2) in hundredths of a percent
hit_rate(hits, misses) ==
  IF hits + misses > 0 THEN RoundHalfEven(hits * 10000, hits + misses) ELSE 0

\* hit_rate_percent in hundredths of a percent, estimated_monthly_savings
\* in cents, cost_saved in thousandths of a dollar
get_cache_stats(st) ==
  [hit_rate_percent |-> hit_rate(st.stats.hits, st.stats.misses),
   total_requests   |-> st.stats.hits + st.stats.misses,
   cache_hits       |-> st.stats.hits,
   cache_misses     |-> st.stats.misses,
   cost_saved       |-> st.stats.cost_saved,
   time_saved       |-> st.stats.time_saved,
   local_cache_size |-> Len(st.local_cache),
   estimated_monthly_savings |->
     IF st.stats.hits + st.stats.misses > 0
     THEN RoundHalfEven(st.stats.cost_saved * 30, 10) ELSE 0]

ScanOrderOk(rd, deleted) ==
  (\E k \in deleted : k.prefix = "cluster")
     => \A k \in DOMAIN rd : k.prefix = "emb" => k \in deleted

\* only the emb:* keys are scanned and deleted
clear_cache_emb_only(st, deleted) ==
  LET raised == deleted # DOMAIN st.redis
      rd1 == [k \in {x \in DOMAIN st.redis : x \notin deleted \/ x.prefix # "emb"}
                |-> st.redis[k]]
  IN  [local_cache |-> <<>>, redis |-> rd1, stats |-> CacheStats, outcome |-> "ok",
       raised |-> raised]

clear_cache(st, deleted) ==
  LET raised == deleted # DOMAIN st.redis
      rd1 == [k \in DOMAIN st.redis \ deleted |-> st.redis[k]]
  IN  IF raised /\ ExceptClear(raised)
      THEN [local_cache |-> <<>>, redis |-> rd1, stats |-> st.stats,
            outcome |-> "StoreError", raised |-> raised]
      ELSE [local_cache |-> <<>>, redis |-> rd1, stats |-> CacheStats,
            outcome |-> "ok", raised |-> raised]

(***************************************************************************)
(* preload_common_queries: get_or_generate for each query of the list in   *)
(* turn, every exception of a query swallowed.  fs gives the faults met by *)
(* each call; outcomes collects how each call ended.                       *)
(***************************************************************************)
StateOf(r) == [local_cache |-> r.local_cache, redis |-> r.redis, stats |-> r.stats]

\* the exception of a query leaves the loop
ExceptPreload_raise(raised) == raised

ExceptPreload(raised) == FALSE

\* one get_or_generate call of the loop: the query and how the call ended
Called(query, r) == [query |-> query, outcome |-> r.outcome]

RECURSIVE preload_common_queries(_, _, _, _, _)
PreloadRest(r, env, query, common_queries, fs, outcomes) ==
  IF r.outcome # "ok" /\ ExceptPreload(TRUE)
  THEN [local_cache |-> r.local_cache, redis |-> r.redis, stats |-> r.stats,
        outcomes |-> Append(outcomes, Called(query, r)), outcome |-> r.outcome]
  ELSE preload_common_queries(StateOf(r), env, common_queries, fs,
                              Append(outcomes, Called(query, r)))

preload_common_queries(st, env, common_queries, fs, outcomes) ==
  IF common_queries = <<>>
  THEN [local_cache |-> st.local_cache, redis |-> st.redis, stats |-> st.stats,
        outcomes |-> outcomes, outcome |-> "ok"]
  ELSE PreloadRest(get_or_generate(st, env, Head(common_queries), Head(fs)),
                   env, Head(common_queries), Tail(common_queries), Tail(fs),
                   outcomes)

(***************************************************************************)
(* The state machine.                                                      *)
(***************************************************************************)

Faults ==
  [r1 : {"ok", "err"}, r2 : {"ok", "err"}, w1 : BOOLEAN, w2 : BOOLEAN,
   enc : {"ok", "fail"}, el : {Elapsed}]

NoFault == [r1 |-> "ok", r2 |-> "ok", w1 |-> FALSE, w2 |-> FALSE, enc |-> "ok", el |-> Elapsed]

\* the store is up or down for the whole of one call
StoreDown == [r1 |-> "err", r2 |-> "err", w1 |-> TRUE, w2 |-> TRUE, enc |-> "ok", el |-> Elapsed]
LoadFaults == {NoFault, StoreDown, [NoFault EXCEPT !.enc = "fail"]}

\* a store whose reads return nothing and whose writes are dropped
NullFaults == {f \in Faults : f.r1 = "ok" /\ f.r2 = "ok" /\ f.w1 /\ f.w2 /\ f.enc = "ok"}

State == [local_cache |-> local_cache, redis |-> redis, stats |-> stats]
Env == [model |-> embedding_model, cap |-> max_local_cache_size, now |-> now]

\* the threads that call get_or_generate on the one EmbeddingCache of main.py:
\* the event loop that runs the /embed handler, and the worker thread that
\* runs the background task of /cache/preload
Threads == {"handler", "preload"}

\* a thread outside get_or_generate: the locals of a call (its query, the
\* entry read at line 144, the vector in hand, the tier that found it, the
\* key picked for eviction, the counter value read, the exceptions raised),
\* the keys of the calls in flight with it, and the calls it has finished
IdleThread ==
  [pc |-> "idle", query |-> <<>>, cached |-> <<>>, embedding |-> <<>>,
   tier |-> "none", lru_key |-> <<>>, reg |-> 0, raised |-> <<>>,
   overlap |-> {}, results |-> <<>>]

NoCall ==
  [op |-> "init", query |-> <<>>, outcome |-> "ok", value |-> <<>>,
   probes |-> <<>>, encodes |-> 0, tier |-> "none", writes |-> <<>>,
   outcomes |-> <<>>]

InitWith(cap, model) ==
  /\ local_cache = <<>>
  /\ redis = <<>>
  /\ stats = CacheStats
  /\ embedding_model = model
  /\ max_local_cache_size = cap
  /\ now = 0
  /\ history = <<>>
  /\ last = NoCall
  /\ threads = [t \in Threads |-> IdleThread]

Init == \E model \in BOOLEAN : InitWith(LocalCap, model)

Returned(r, query) ==
  /\ local_cache' = r.local_cache
  /\ redis' = r.redis
  /\ stats' = r.stats
  /\ history' = Append(history, [op |-> "get", query |-> query])
  /\ last' = [op |-> "get", query |-> query, outcome |-> r.outcome,
              value |-> r.value, probes |-> r.probes, encodes |-> r.encodes,
              tier |-> r.tier, writes |-> r.writes, outcomes |-> <<>>]
  /\ UNCHANGED <<embedding_model, max_local_cache_size, now, threads>>

GetOrGenerate(query, f) == Returned(get_or_generate(State, Env, query, f), query)

Cleared(r) ==
  /\ local_cache' = r.local_cache
  /\ redis' = r.redis
  /\ stats' = r.stats
  /\ history' = Append(history, [op |-> "clear", query |-> <<>>])
  /\ last' = [NoCall EXCEPT !.op = "clear", !.outcome = r.outcome,
                             !.probes = <<[tier |-> "store",
                                           res  |-> IF r.raised THEN "err" ELSE "ok"]>>]
  /\ UNCHANGED <<embedding_model, max_local_cache_size, now, threads>>

ClearCache(deleted) ==
  /\ ScanOrderOk(redis, deleted)
  /\ Cleared(clear_cache(State, deleted))

Preloaded(r, common_queries) ==
  /\ local_cache' = r.local_cache
  /\ redis' = r.redis
  /\ stats' = r.stats
  /\ history' = history \o [i \in 1..Len(r.outcomes) |->
                               [op |-> "get", query |-> r.outcomes[i].query]]
  /\ last' = [NoCall EXCEPT !.op = "preload", !.query = common_queries,
                             !.outcome = r.outcome, !.outcomes = r.outcomes]
  /\ UNCHANGED <<embedding_model, max_local_cache_size, now, threads>>

Preload(common_queries, fs) ==
  Preloaded(preload_common_queries(State, Env, common_queries, fs, <<>>),
            common_queries)

\* the service starts again: a new EmbeddingCache over the same store
Restart(model) ==
  /\ local_cache' = <<>>
  /\ stats' = CacheStats
  /\ embedding_model' = model
  /\ history' = Append(history, [op |-> "init", query |-> <<>>])
  /\ last' = NoCall
  /\ UNCHANGED <<redis, max_local_cache_size, now, threads>>

\* the clock moves; the store drops the keys whose seconds have run out
Tick ==
  /\ now' = now + 1
  /\ redis' = [k \in {x \in DOMAIN redis : StoreLive(redis[x], now + 1)} |-> redis[k]]
  /\ UNCHANGED <<local_cache, stats, embedding_model, max_local_cache_size, history,
                 last, threads>>

\* where the two scans of clear_cache can stop
ClearOutcomes(rd) == {{}, {k \in DOMAIN rd : k.prefix = "emb"}, DOMAIN rd}

(***************************************************************************)
(* Spec: the tiers under every fault of the store and of the model, with   *)
(* the clock running past the TTL.                                         *)
(***************************************************************************)
Next ==
  \/ \E query \in Queries, f \in Faults :
       Len(history) < MaxRequests /\ GetOrGenerate(query, f)
  \/ \E deleted \in ClearOutcomes(redis) :
       Len(history) < MaxRequests /\ ClearCache(deleted)
  \/ \E model \in BOOLEAN : Len(history) < MaxRequests /\ Restart(model)
  \/ now < MaxTime /\ Tick

Spec == Init /\ [][Next]_vars

(***************************************************************************)
(* SpecLoad: more keys than the local table holds, requested one by one    *)
(* and in preloaded pairs, the store up or down for a whole call.          *)
(***************************************************************************)
PreloadLists == {<<a, b>> : a \in LoadQueries, b \in LoadQueries}

InitLoad == InitWith(LocalCap, TRUE)

NextLoad ==
  \/ \E query \in LoadQueries, f \in LoadFaults :
       Len(history) < MaxLoad /\ GetOrGenerate(query, f)
  \/ \E common_queries \in PreloadLists, f1 \in LoadFaults, f2 \in LoadFaults :
       Len(history) + 2 <= MaxLoad /\ Preload(common_queries, <<f1, f2>>)
  \/ \E deleted \in ClearOutcomes(redis) :
       Len(history) < MaxLoad /\ ClearCache(deleted)

SpecLoad == InitLoad /\ [][NextLoad]_vars

(***************************************************************************)
(* SpecNull: an empty cache in front of a store whose reads return nothing *)
(* (the mocked store of the tests), a table large enough for every key.    *)
(***************************************************************************)
InitNull == InitWith(NullCap, TRUE)

NextNull ==
  \E query \in NullQueries, f \in NullFaults :
    Len(history) < MaxScript /\ GetOrGenerate(query, f)

SpecNull == InitNull /\ [][NextNull]_vars

(***************************************************************************)
(* SpecKeys: _normalize_query, get_cache_key and _get_semantic_cluster_key *)
(* called on the queries of the tests, on rewordings of the query of the   *)
(* call before (words in another order, another letter case, more or       *)
(* fewer blanks and stop words, a synonym in place of a word) and on the   *)
(* normalised string that the call before returned.                        *)
(***************************************************************************)
KeyTokens == {"", "Modern", "modern", "apartment", "London", "london", "in", "the"}

\* what a rewording may add or drop: the empty token of a blank, a stop word
Fillers == {t \in KeyTokens : t = "" \/ t \in stop_words}

CaseVariants(tok) == {t \in KeyTokens : lower(t) = lower(tok)}

Swapped(query, i) == [query EXCEPT ![i] = query[i + 1], ![i + 1] = query[i]]

InsertAt(query, i, tok) ==
  SubSeq(query, 1, i - 1) \o <<tok>> \o SubSeq(query, i, Len(query))

Variants(query) ==
  {Swapped(query, i) : i \in 1..(Len(query) - 1)}
    \cup UNION {{[query EXCEPT ![i] = t] : t \in CaseVariants(query[i])} :
                  i \in 1..Len(query)}
    \cup (IF Len(query) < MaxTokens
          THEN {InsertAt(query, i, t) : i \in 1..(Len(query) + 1), t \in Fillers}
          ELSE {})
    \cup {RemoveAt(query, i) : i \in {j \in 1..Len(query) : query[j] \in Fillers}}

\* the members of the synonym set of a word that are one word themselves
SingleWordSynonyms(word) ==
  UNION {concept_mapping[i].concepts \cap {WordOrder[j] : j \in 1..Len(WordOrder)} :
           i \in {k \in 1..Len(concept_mapping) : word \in concept_mapping[k].concepts}}

\* a word of the query replaced by a synonym; a token that the normaliser
\* splits ("high-end") is not one word
Synonyms(query) ==
  UNION {{[query EXCEPT ![i] = w] : w \in SingleWordSynonyms(lower(query[i]))} :
           i \in {k \in 1..Len(query) : PunctSplit(lower(query[k])) = <<lower(query[k])>>}}

QModern == <<"Modern", "apartment", "London">>
QPlain  == <<"apartment", "London">>
NormalizeSeeds == {QModern, QPlain}

QFlat      == <<"flat", "in", "London">>
QApartment == <<"apartment", "in", "London">>
QApt       == <<"apt", "in", "London">>
Q1Bed        == <<"1", "bed", "flat">>
QOneBedroom  == <<"one", "bedroom", "flat">>
Q1Bedroom    == <<"1bedroom", "flat">>
QHighEnd     == <<"high-end", "apartment", "London">>
ClusterSeeds ==
  {QFlat, QLuxury, QLuxuryIn, QPremium, QHighEnd, Q1Bed, QOneBedroom, Q1Bedroom}

\* a call of a key function by a caller: nothing of the cache changes
KeyCall(op, query, value) ==
  /\ last' = [NoCall EXCEPT !.op = op, !.query = query, !.value = <<value>>]
  /\ UNCHANGED <<local_cache, redis, stats, embedding_model,
                 max_local_cache_size, now, history, threads>>

NormalizeQuery(query) == KeyCall("normalize", query, _normalize_query(query))

GetCacheKey(query) == KeyCall("key", query, get_cache_key(query))

SemanticClusterKey(query) ==
  KeyCall("cluster", query, _get_semantic_cluster_key(query))

InitKeys == InitWith(LocalCap, TRUE)

NextKeys ==
  \/ \E query \in NormalizeSeeds : NormalizeQuery(query)
  \/ \E query \in Variants(last.query) :
       last.op = "normalize" /\ NormalizeQuery(query)
  \/ last.op = "normalize" /\ NormalizeQuery(last.value[1])
  \/ \E query \in NormalizeSeeds : GetCacheKey(query)
  \/ \E query \in Variants(last.query) : last.op = "key" /\ GetCacheKey(query)
  \/ \E query \in ClusterSeeds : SemanticClusterKey(query)
  \/ \E query \in Synonyms(last.query) :
       last.op = "cluster" /\ SemanticClusterKey(query)

SpecKeys == InitKeys /\ [][NextKeys]_vars

(***************************************************************************)
(* SpecEmbed: the /embed handler of main_simple.py and                     *)
(* main_simple_working.py in front of the cache: get_or_generate, then     *)
(* get_cache_stats, then the response.  An exception of get_or_generate    *)
(* ends the request with no response body.                                 *)
(***************************************************************************)
\* embedding.tolist(): the floats of the vector as a list
tolist(embedding) == [floats |-> embedding]

EmbeddingResponse(embedding, cached, cache_stats) ==
  [embedding |-> embedding, cached |-> cached, cache_stats |-> cache_stats]

Responded(r, query, current_stats) ==
  /\ local_cache' = r.local_cache
  /\ redis' = r.redis
  /\ stats' = r.stats
  /\ history' = Append(history, [op |-> "get", query |-> query])
  /\ last' = [op |-> "embed", query |-> query, outcome |-> r.outcome,
              value |-> IF r.outcome = "ok"
                        THEN <<EmbeddingResponse(tolist(r.value[1]),
                                                 current_stats.cache_hits > 0,
                                                 current_stats)>>
                        ELSE <<>>,
              probes |-> r.probes, encodes |-> r.encodes, tier |-> r.tier,
              writes |-> r.writes, outcomes |-> <<>>]
  /\ UNCHANGED <<embedding_model, max_local_cache_size, now, threads>>

Handled(r, query) == Responded(r, query, get_cache_stats(StateOf(r)))

generate_embedding(query, f) == Handled(get_or_generate(State, Env, query, f), query)

InitEmbed == InitWith(LocalCap, TRUE)

NextEmbed ==
  \/ \E query \in LoadQueries, f \in LoadFaults :
       Len(history) < MaxRequests /\ generate_embedding(query, f)
  \/ \E deleted \in ClearOutcomes(redis) :
       Len(history) < MaxRequests /\ ClearCache(deleted)

SpecEmbed == InitEmbed /\ [][NextEmbed]_vars

(***************************************************************************)
(* SpecRace: the two threads inside get_or_generate at the same time, one  *)
(* step for each statement, the counter updates split into their read and  *)
(* their write.  A thread at a store call (lines 158, 177, 183, 204, 205)  *)
(* is blocked in the redis client until the store answers: main.py builds  *)
(* the client with redis.from_url(redis_url) and no timeout, and the cache *)
(* sets none.  The store is healthy whenever it answers.                   *)
(***************************************************************************)
RaceQueries == {QLuxury, QPremium, Query1}

Exception(line, type) == [line |-> line, type |-> type]

\* the call of the thread is over: its locals are dropped, its end is kept
Finished(th, outcome, raised) ==
  [IdleThread EXCEPT
     !.results = Append(th.results, [query |-> th.query, outcome |-> outcome,
                                     raised |-> raised, overlap |-> th.overlap])]

\* an exception that leaves get_or_generate
Fail(t, exc) ==
  threads' = [threads EXCEPT
                ![t] = Finished(threads[t], exc.type, Append(threads[t].raised, exc))]

\* an exception inside _store_in_local_cache: the except clause of the exact
\* tier (line 171) or of the cluster tier (line 191) logs it and the call
\* goes on with the next tier; after encode nothing catches it
RaiseInStore(t, exc) ==
  IF threads[t].tier = "generate"
  THEN Fail(t, exc)
  ELSE threads' = [threads EXCEPT
                     ![t].raised = Append(@, exc),
                     ![t].pc = IF threads[t].tier = "exact" THEN "L177" ELSE "L195",
                     ![t].embedding = <<>>,
                     ![t].lru_key = <<>>,
                     ![t].tier = "none"]

\* lines 134-140: a caller enters get_or_generate(query)
Call(t, query) ==
  /\ threads[t].pc = "idle"
  /\ threads' =
       [u \in Threads |->
          IF u = t
          THEN [threads[t] EXCEPT
                  !.pc = "L143", !.query = query,
                  !.overlap = {get_cache_key(threads[o].query) :
                                 o \in {x \in Threads \ {t} : threads[x].pc # "idle"}}]
          ELSE IF threads[u].pc # "idle"
          THEN [threads[u] EXCEPT !.overlap = @ \cup {get_cache_key(query)}]
          ELSE threads[u]]
  /\ history' = Append(history, [op |-> "get", query |-> query])
  /\ UNCHANGED <<local_cache, redis, stats, embedding_model, max_local_cache_size,
                 now, last>>

\* line 143: if cache_key in self.local_cache
InLocal(t) ==
  /\ threads[t].pc = "L143"
  /\ threads' = [threads EXCEPT
                   ![t].pc = IF IndexOf(local_cache, get_cache_key(threads[t].query)) # 0
                             THEN "L144" ELSE "L158"]
  /\ UNCHANGED <<local_cache, redis, stats, embedding_model, max_local_cache_size,
                 now, history, last>>

\* line 144: cached = self.local_cache[cache_key]
GetLocal(t) ==
  /\ threads[t].pc = "L144"
  /\ IF IndexOf(local_cache, get_cache_key(threads[t].query)) = 0
     THEN Fail(t, Exception(144, "KeyError"))
     ELSE threads' = [threads EXCEPT
                        ![t].cached = <<local_cache[IndexOf(local_cache,
                                          get_cache_key(threads[t].query))]>>,
                        ![t].pc = "L145"]
  /\ UNCHANGED <<local_cache, redis, stats, embedding_model, max_local_cache_size,
                 now, history, last>>

\* line 145: if not self._is_cache_expired(cached)
IsExpired(t) ==
  /\ threads[t].pc = "L145"
  /\ threads' = [threads EXCEPT
                   ![t].pc = IF _is_cache_expired(threads[t].cached[1], now)
                             THEN "L154" ELSE "L146"]
  /\ UNCHANGED <<local_cache, redis, stats, embedding_model, max_local_cache_size,
                 now, history, last>>

\* the entry of the table is the object the thread read at line 144
SameObject(entry, cached) ==
  /\ entry.key = cached.key
  /\ entry.timestamp = cached.timestamp
  /\ entry.data = cached.data

\* line 146: cached.hit_count += 1, on the object read at line 144 (which the
\* table may hold no more)
HitCount(t) ==
  /\ threads[t].pc = "L146"
  /\ local_cache' = [i \in 1..Len(local_cache) |->
                       IF SameObject(local_cache[i], threads[t].cached[1])
                       THEN [local_cache[i] EXCEPT !.hit_count = @ + 1]
                       ELSE local_cache[i]]
  /\ threads' = [threads EXCEPT
                   ![t].pc = "hits.read", ![t].tier = "local",
                   ![t].embedding = <<threads[t].cached[1].data>>]
  /\ UNCHANGED <<redis, stats, embedding_model, max_local_cache_size, now, history,
                 last>>

\* lines 147, 166, 185: self.stats.hits += 1, the read of the counter
ReadHits(t) ==
  /\ threads[t].pc = "hits.read"
  /\ threads' = [threads EXCEPT ![t].reg = stats.hits, ![t].pc = "hits.write"]
  /\ UNCHANGED <<local_cache, redis, stats, embedding_model, max_local_cache_size,
                 now, history, last>>

\* lines 147-151, 166-170, 185-189: the write of the counter, the cost and
\* the time saved, return
WriteHits(t) ==
  /\ threads[t].pc = "hits.write"
  /\ stats' = [RecordHit(stats, Elapsed) EXCEPT !.hits = threads[t].reg + 1]
  /\ threads' = [threads EXCEPT ![t] = Finished(threads[t], "ok", threads[t].raised)]
  /\ UNCHANGED <<local_cache, redis, embedding_model, max_local_cache_size, now,
                 history, last>>

\* line 154: del self.local_cache[cache_key]
DelExpired(t) ==
  /\ threads[t].pc = "L154"
  /\ IF IndexOf(local_cache, get_cache_key(threads[t].query)) = 0
     THEN /\ Fail(t, Exception(154, "KeyError"))
          /\ UNCHANGED local_cache
     ELSE /\ local_cache' = RemoveAt(local_cache,
                                     IndexOf(local_cache, get_cache_key(threads[t].query)))
          /\ threads' = [threads EXCEPT ![t].pc = "L158", ![t].cached = <<>>]
  /\ UNCHANGED <<redis, stats, embedding_model, max_local_cache_size, now, history,
                 last>>

\* what a thread does with the answer of redis.get: a value sends it to
\* _store_in_local_cache, nothing sends it to the next tier
Got(t, got, tier, next) ==
  threads' = [threads EXCEPT
                ![t].embedding = got.val,
                ![t].tier = IF got.val # <<>> THEN tier ELSE "none",
                ![t].pc = IF got.val # <<>> THEN "L213" ELSE next]

\* lines 158-161: the store answers redis.get(cache_key)
ExactGet(t) ==
  /\ threads[t].pc = "L158"
  /\ Got(t, redis_get(redis, get_cache_key(threads[t].query), "ok", now), "exact", "L177")
  /\ UNCHANGED <<local_cache, redis, stats, embedding_model, max_local_cache_size,
                 now, history, last>>

\* lines 175-180: the store answers redis.get(cluster_key)
ClusterGet(t) ==
  /\ threads[t].pc = "L177"
  /\ Got(t, redis_get(redis, _get_semantic_cluster_key(threads[t].query), "ok", now),
         "cluster", "L195")
  /\ UNCHANGED <<local_cache, redis, stats, embedding_model, max_local_cache_size,
                 now, history, last>>

\* line 213: if len(self.local_cache) >= self.max_local_cache_size
LenCheck(t) ==
  /\ threads[t].pc = "L213"
  /\ threads' = [threads EXCEPT
                   ![t].pc = IF Len(local_cache) >= max_local_cache_size
                             THEN "L215" ELSE "L219"]
  /\ UNCHANGED <<local_cache, redis, stats, embedding_model, max_local_cache_size,
                 now, history, last>>

\* lines 215-216: lru_key = min(self.local_cache.keys(), key=...); min of no
\* key raises ValueError
PickLru(t) ==
  /\ threads[t].pc = "L215"
  /\ IF local_cache = <<>>
     THEN RaiseInStore(t, Exception(215, "ValueError"))
     ELSE threads' = [threads EXCEPT
                        ![t].lru_key = <<local_cache[MinHitIndex(local_cache)].key>>,
                        ![t].pc = "L217"]
  /\ UNCHANGED <<local_cache, redis, stats, embedding_model, max_local_cache_size,
                 now, history, last>>

\* line 217: del self.local_cache[lru_key]
DelLru(t) ==
  /\ threads[t].pc = "L217"
  /\ IF IndexOf(local_cache, threads[t].lru_key[1]) = 0
     THEN /\ RaiseInStore(t, Exception(217, "KeyError"))
          /\ UNCHANGED local_cache
     ELSE /\ local_cache' = RemoveAt(local_cache,
                                     IndexOf(local_cache, threads[t].lru_key[1]))
          /\ threads' = [threads EXCEPT ![t].pc = "L219", ![t].lru_key = <<>>]
  /\ UNCHANGED <<redis, stats, embedding_model, max_local_cache_size, now, history,
                 last>>

\* lines 219-225: self.local_cache[cache_key] = CachedEmbedding(...)
Insert(t) ==
  /\ threads[t].pc = "L219"
  /\ local_cache' =
       DictSet(local_cache,
               CachedEmbedding(get_cache_key(threads[t].query), threads[t].embedding[1],
                               now, CACHE_TTL, 0,
                               IF threads[t].tier = "generate"
                               THEN <<_get_semantic_cluster_key(threads[t].query)>>
                               ELSE <<>>))
  /\ threads' = [threads EXCEPT
                   ![t].pc = CASE threads[t].tier = "exact" -> "hits.read"
                               [] threads[t].tier = "cluster" -> "L183"
                               [] OTHER -> "L204"]
  /\ UNCHANGED <<redis, stats, embedding_model, max_local_cache_size, now, history,
                 last>>

\* the store answers the setex of _store_in_redis_cache
Setex(t, key, next) ==
  /\ redis' = _store_in_redis_cache(redis, now, key, threads[t].embedding[1], FALSE).redis
  /\ threads' = [threads EXCEPT ![t].pc = next]
  /\ UNCHANGED <<local_cache, stats, embedding_model, max_local_cache_size, now,
                 history, last>>

\* line 183: the cluster hit written under the exact key
Backfill(t) ==
  /\ threads[t].pc = "L183"
  /\ Setex(t, get_cache_key(threads[t].query), "hits.read")

\* lines 195-202: the model is there, encode(query), the cluster key
Encode(t) ==
  /\ threads[t].pc = "L195"
  /\ IF ~embedding_model
     THEN Fail(t, Exception(196, "ValueError"))
     ELSE threads' = [threads EXCEPT
                        ![t].embedding = <<encode(threads[t].query, now)>>,
                        ![t].tier = "generate",
                        ![t].pc = "L213"]
  /\ UNCHANGED <<local_cache, redis, stats, embedding_model, max_local_cache_size,
                 now, history, last>>

\* line 204: _store_in_redis_cache(cache_key, embedding)
SetExact(t) ==
  /\ threads[t].pc = "L204"
  /\ Setex(t, get_cache_key(threads[t].query), "L205")

\* line 205: _store_in_redis_cache(cluster_key, embedding)
SetCluster(t) ==
  /\ threads[t].pc = "L205"
  /\ Setex(t, _get_semantic_cluster_key(threads[t].query), "misses.read")

\* line 207: self.stats.misses += 1, the read of the counter
ReadMisses(t) ==
  /\ threads[t].pc = "misses.read"
  /\ threads' = [threads EXCEPT ![t].reg = stats.misses, ![t].pc = "misses.write"]
  /\ UNCHANGED <<local_cache, redis, stats, embedding_model, max_local_cache_size,
                 now, history, last>>

\* lines 207-208: the write of the counter, return embedding
WriteMisses(t) ==
  /\ threads[t].pc = "misses.write"
  /\ stats' = [stats EXCEPT !.misses = threads[t].reg + 1]
  /\ threads' = [threads EXCEPT ![t] = Finished(threads[t], "ok", threads[t].raised)]
  /\ UNCHANGED <<local_cache, redis, embedding_model, max_local_cache_size, now,
                 history, last>>

AllIdle == \A t \in Threads : threads[t].pc = "idle"

InitRace == InitWith(RaceCap, TRUE)

\* the statements a thread runs by itself once it is scheduled
ThreadStep(t) ==
  \/ InLocal(t)
  \/ GetLocal(t)
  \/ IsExpired(t)
  \/ HitCount(t)
  \/ ReadHits(t)
  \/ WriteHits(t)
  \/ DelExpired(t)
  \/ LenCheck(t)
  \/ PickLru(t)
  \/ DelLru(t)
  \/ Insert(t)
  \/ Encode(t)
  \/ ReadMisses(t)
  \/ WriteMisses(t)

\* the answers of the store to the calls the threads are blocked in
StoreAnswers(t) ==
  \/ ExactGet(t)
  \/ ClusterGet(t)
  \/ Backfill(t)
  \/ SetExact(t)
  \/ SetCluster(t)

NextRace ==
  \/ \E t \in Threads, query \in RaceQueries :
       Len(history) < MaxRaceCalls /\ Call(t, query)
  \/ \E t \in Threads : ThreadStep(t)
  \/ \E t \in Threads : StoreAnswers(t)
  \/ AllIdle /\ now < MaxTime /\ Tick

SpecRace == InitRace /\ [][NextRace]_vars

\* the interpreter schedules every thread that can run; nothing makes the
\* store answer, and no timeout ends the wait of a thread
SpecRaceFair == SpecRace /\ \A t \in Threads : WF_vars(ThreadStep(t))

(***************************************************************************)
(* Properties.                                                             *)
(***************************************************************************)
\* the step is one get_or_generate call of a caller
GetStep == last'.op = "get" /\ Len(history') = Len(history) + 1

Keys(lc) == {lc[i].key : i \in 1..Len(lc)}

LocalLive(key) ==
  \E i \in 1..Len(local_cache) :
    local_cache[i].key = key /\ ~(now - local_cache[i].timestamp > local_cache[i].ttl)

LocalExpired(key) ==
  \E i \in 1..Len(local_cache) :
    local_cache[i].key = key /\ now - local_cache[i].timestamp > local_cache[i].ttl

InStore(key) == key \in DOMAIN redis /\ now < redis[key].timestamp + redis[key].ttl

ReadFailed(probes, tier) == \E i \in 1..Len(probes) : probes[i] = [tier |-> tier, res |-> "err"]

TierOrder == <<"local", "exact", "cluster">>

\* C1: a get_or_generate call probes the local table, then the store's exact
\* key, then the store's cluster key, and nothing after its first hit; a probe
\* hits exactly when its tier holds a live value that the read returns; the
\* embedding function runs at most once, and only after all three probes
\* came back without a value (absent, expired or failed).
C1_ProbeOrder ==
  [][GetStep =>
       LET p == last'.probes
           k == get_cache_key(last'.query)
           c == _get_semantic_cluster_key(last'.query)
       IN  /\ Len(p) \in 1..3
           /\ \A i \in 1..Len(p) : p[i].tier = TierOrder[i]
           /\ \A i \in 1..(Len(p) - 1) : p[i].res # "hit"
           /\ (p[Len(p)].res = "hit") <=> (last'.tier \in {"local", "exact", "cluster"})
           /\ p[Len(p)].res = "hit" => last'.tier = p[Len(p)].tier
           /\ (p[1].res = "hit") <=> LocalLive(k)
           /\ (p[1].res = "expired") <=> LocalExpired(k)
           /\ Len(p) >= 2 => /\ p[2].res = "hit" => InStore(k)
                             /\ p[2].res = "none" => ~InStore(k)
           /\ Len(p) = 3 => /\ p[3].res = "hit" => InStore(c)
                            /\ p[3].res = "none" => ~InStore(c)
           /\ last'.encodes \in {0, 1}
           /\ last'.encodes = 1 =>
                /\ Len(p) = 3
                /\ \A i \in 1..3 : p[i].res \in {"none", "expired", "err"}
           /\ last'.tier = "generate" => last'.encodes = 1
    ]_vars

\* C1 witness: the embedding function ran after an expired local entry, a
\* failed read of the exact key and an empty cluster key
C1_Witness ==
  /\ last.op = "get"
  /\ last.encodes = 1
  /\ last.probes = << [tier |-> "local", res |-> "expired"],
                      [tier |-> "exact", res |-> "err"],
                      [tier |-> "cluster", res |-> "none"] >>

\* C2: a get_or_generate(q) that follows a successful get_or_generate(q),
\* with no other operation in between and the local entry of q not expired,
\* returns the same vector, adds one hit and no miss.
C2_SecondCallHits ==
  [][(/\ GetStep
      /\ last.op = "get"
      /\ last.outcome = "ok"
      /\ last'.query = last.query
      /\ ~LocalExpired(get_cache_key(last.query)))
     => /\ last'.outcome = "ok"
        /\ last'.value = last.value
        /\ stats'.hits = stats.hits + 1
        /\ stats'.misses = stats.misses
    ]_vars

\* C2 witness: the same query asked twice in a row, the first time generated
\* while every store write failed, the second time a hit
C2_Witness ==
  /\ Len(history) >= 2
  /\ history[Len(history)] = history[Len(history) - 1]
  /\ history[Len(history)].op = "get"
  /\ last.op = "get"
  /\ last.tier = "local"
  /\ stats.misses = 1
  /\ stats.hits = 1
  /\ DOMAIN redis = {}

RequestedKeys == {get_cache_key(history[i].query) : i \in 1..Len(history)}

Script == <<Query1, Query2, Query1, Query3, Query1>>

\* C3: from an empty cache, over a store whose reads return nothing, with no
\* expiry and every requested key still in the table (no eviction), misses
\* is the number of distinct exact keys requested and hits the number of
\* the other calls; query1, query2, query1, query3, query1 gives 3 and 2.
C3_MissesAreDistinctKeys ==
  (RequestedKeys \subseteq Keys(local_cache)) =>
    /\ stats.misses = Cardinality(RequestedKeys)
    /\ stats.hits = Len(history) - Cardinality(RequestedKeys)
    /\ [i \in 1..Len(history) |-> history[i].query] = Script
         => stats.misses = 3 /\ stats.hits = 2

\* C3 witness: the five calls of the scenario have been made
C3_Witness ==
  /\ [i \in 1..Len(history) |-> history[i].query] = Script
  /\ stats.misses = 3
  /\ stats.hits = 2
  /\ DOMAIN redis = {}

\* C4: no get_or_generate call ends in a store error, and with an embedding
\* function configured (and not itself failing) the call returns a vector
\* whatever the store reads and writes do.
C4_StoreFailuresAbsorbed ==
  last.op = "get" =>
    /\ last.outcome # "StoreError"
    /\ (embedding_model /\ last.outcome # "EncodeError")
         => last.outcome = "ok" /\ last.value # <<>>

\* C4 witness: a vector returned while both store reads and both store
\* writes of the call failed
C4_Witness ==
  /\ last.op = "get"
  /\ last.outcome = "ok"
  /\ ReadFailed(last.probes, "exact")
  /\ ReadFailed(last.probes, "cluster")
  /\ Len(last.writes) = 2
  /\ \A i \in 1..2 : ~last.writes[i].ok

\* some tier holds a value for the query: a live local entry, the exact key
\* or the cluster key in the store
TierHolds(query) ==
  \/ LocalLive(get_cache_key(query))
  \/ InStore(get_cache_key(query))
  \/ InStore(_get_semantic_cluster_key(query))

\* some tier gives the call a value: a live local entry, or a store key that
\* is there and whose read does not fail
TierYields(query, probes) ==
  \/ LocalLive(get_cache_key(query))
  \/ InStore(get_cache_key(query)) /\ ~ReadFailed(probes, "exact")
  \/ InStore(_get_semantic_cluster_key(query)) /\ ~ReadFailed(probes, "cluster")

\* C5 as claimed: with no embedding function the call fails with the
\* ValueError exactly when no tier holds a value for the query.
C5_Original ==
  [][(GetStep /\ ~embedding_model)
     => ((last'.outcome = "ValueError") <=> ~TierHolds(last'.query))
    ]_vars

\* C5 amended: with no embedding function the call fails with the ValueError
\* exactly when no tier gives it a value, a store read that fails counting as
\* a tier that holds nothing; otherwise it returns the vector of a tier,
\* never an empty or zero vector.
C5_ErrorIffNoTierYields ==
  [][(GetStep /\ ~embedding_model)
     => /\ (last'.outcome = "ValueError") <=> ~TierYields(last'.query, last'.probes)
        /\ last'.outcome \in {"ValueError", "ok"}
        /\ last'.outcome = "ValueError" => last'.value = <<>>
        /\ last'.outcome = "ok" =>
             /\ last'.tier \in {"local", "exact", "cluster"}
             /\ last'.value # <<>>
             /\ last'.value[1].of \in Queries
    ]_vars

\* C5 witness: no embedding function, the store holds the exact key of the
\* query, the read of it failed and the call ended in the ValueError
C5_Witness ==
  /\ ~embedding_model
  /\ last.op = "get"
  /\ last.outcome = "ValueError"
  /\ ReadFailed(last.probes, "exact")
  /\ InStore(get_cache_key(last.query))

\* C6: right after clear_cache the local table is empty and every counter
\* of get_cache_stats is zero, also when the store scan or delete failed;
\* clear_cache does not raise.
C6_ClearResets ==
  last.op = "clear" =>
    /\ last.outcome = "ok"
    /\ local_cache = <<>>
    /\ get_cache_stats(State).total_requests = 0
    /\ get_cache_stats(State).cache_hits = 0
    /\ get_cache_stats(State).cache_misses = 0
    /\ get_cache_stats(State).cost_saved = 0
    /\ get_cache_stats(State).time_saved = 0
    /\ get_cache_stats(State).local_cache_size = 0

\* C6 witness: clear_cache came back after hits and misses were counted,
\* and the store still holds keys (its delete failed)
C6_Witness ==
  /\ last.op = "clear"
  /\ DOMAIN redis # {}
  /\ Len(history) = 3
  /\ history[1].op = "get"
  /\ history[2] = history[1]
  /\ stats = CacheStats

\* C7: the local table never holds more entries than max_local_cache_size.
C7_LocalTableBounded == Len(local_cache) <= max_local_cache_size

\* C7 witness: more distinct keys were requested than the table holds, and
\* the table is full
C7_Witness ==
  /\ Cardinality(RequestedKeys) > max_local_cache_size
  /\ Len(local_cache) = max_local_cache_size
  /\ last.op = "preload"

\* C8: a call that inserts a new key into a full local table removes exactly
\* one entry first: the earliest-inserted among those of minimal hit_count.
\* The other entries stay, in their order, and the new entry comes last.
C8_EvictsFirstLeastHit ==
  [][(/\ GetStep
      /\ Len(local_cache) = max_local_cache_size
      /\ get_cache_key(last'.query) \notin Keys(local_cache)
      /\ get_cache_key(last'.query) \in Keys(local_cache'))
     => \E i \in 1..Len(local_cache) :
          /\ \A j \in 1..Len(local_cache) :
               local_cache[i].hit_count <= local_cache[j].hit_count
          /\ \A j \in 1..(i - 1) :
               local_cache[j].hit_count > local_cache[i].hit_count
          /\ Len(local_cache') = Len(local_cache)
          /\ SubSeq(local_cache', 1, Len(local_cache) - 1)
               = SubSeq(local_cache, 1, i - 1) \o SubSeq(local_cache, i + 1, Len(local_cache))
          /\ local_cache'[Len(local_cache)].key = get_cache_key(last'.query)
    ]_vars

\* C8 witness: two keys inserted, the first requested again, a third key
\* inserted: the second key is gone and the first and third are held
C8_Witness ==
  /\ max_local_cache_size = 2
  /\ [i \in 1..Len(history) |-> history[i].query] = <<QLuxury, Query1, QLuxury, Query2>>
  /\ \A i \in 1..Len(history) : history[i].op = "get"
  /\ [i \in 1..Len(local_cache) |-> local_cache[i].key]
       = <<get_cache_key(QLuxury), get_cache_key(Query2)>>
  /\ local_cache[1].hit_count = 1

\* a vector comes out of the store for the query
StoreYields(query, probes) ==
  \/ InStore(get_cache_key(query)) /\ ~ReadFailed(probes, "exact")
  \/ InStore(_get_semantic_cluster_key(query)) /\ ~ReadFailed(probes, "cluster")

\* C9 as claimed: a call that finds the local entry of its key expired
\* invokes the embedding function again and counts a miss, whatever the
\* cache has written to the store before.
C9_Original ==
  [][(/\ GetStep
      /\ embedding_model
      /\ LocalExpired(get_cache_key(last'.query)))
     => /\ last'.encodes = 1
        /\ last'.outcome = "ok" => stats'.misses = stats.misses + 1
    ]_vars

\* C9 amended: a call that finds the local entry of its key expired removes
\* it and goes on to the store; it invokes the embedding function again and
\* counts a miss when neither store lookup gives a value, and when one does
\* it returns that vector as a hit without invoking the embedding function.
C9_ExpiredEntryIsAbsent ==
  [][(/\ GetStep
      /\ embedding_model
      /\ LocalExpired(get_cache_key(last'.query)))
     => /\ last'.probes[1] = [tier |-> "local", res |-> "expired"]
        /\ last'.tier # "local"
        /\ \A i \in 1..Len(local_cache') :
             local_cache'[i].key = get_cache_key(last'.query)
               => local_cache'[i].timestamp = now /\ local_cache'[i].hit_count = 0
        /\ ~StoreYields(last'.query, last'.probes) =>
             /\ last'.encodes = 1
             /\ last'.outcome = "ok" => stats'.misses = stats.misses + 1 /\ stats'.hits = stats.hits
        /\ StoreYields(last'.query, last'.probes) =>
             /\ last'.encodes = 0
             /\ last'.outcome = "ok"
             /\ stats'.hits = stats.hits + 1
             /\ stats'.misses = stats.misses
    ]_vars

\* C9 witness: an entry past its TTL was queried, nothing came out of the
\* store, and the vector was generated again
C9_Witness ==
  /\ last.op = "get"
  /\ last.probes[1] = [tier |-> "local", res |-> "expired"]
  /\ last.tier = "generate"
  /\ stats.misses = 2

\* every store call of the recorded call went through
StoreWorked(call) ==
  /\ \A i \in 1..Len(call.probes) : call.probes[i].res # "err"
  /\ \A i \in 1..Len(call.writes) : call.writes[i].ok

\* "Luxury apartment in London" asked right after a successful
\* "luxury apartment London", the store working in both calls
LuxuryThenLuxuryIn ==
  /\ GetStep
  /\ last.op = "get"
  /\ last.query = QLuxury
  /\ last.outcome = "ok"
  /\ StoreWorked(last)
  /\ last'.query = QLuxuryIn
  /\ StoreWorked(last')

LookupsSinceClear ==
  Cardinality({i \in 1..Len(history) :
                 \A j \in i..Len(history) : history[j].op = "get"})

\* C11 as claimed: hits + misses is the number of get_or_generate calls made
\* since the last clear_cache, a call that ends in an error included, and
\* total_requests reports that number.
C11_Original ==
  /\ stats.hits + stats.misses = LookupsSinceClear
  /\ get_cache_stats(State).total_requests = LookupsSinceClear

\* C11 amended: a get_or_generate call that returns a vector adds exactly one
\* to hits + misses (one hit or one miss), a call that ends in an error adds
\* nothing, clear_cache sets both to zero, and total_requests reports
\* hits + misses: the sum counts the calls that returned since the last clear.
C11_CountsReturnedLookups ==
  [][/\ (GetStep /\ last'.outcome = "ok")
          => \/ stats'.hits = stats.hits + 1 /\ stats'.misses = stats.misses
             \/ stats'.hits = stats.hits /\ stats'.misses = stats.misses + 1
     /\ (GetStep /\ last'.outcome # "ok")
          => stats'.hits = stats.hits /\ stats'.misses = stats.misses
     /\ (last'.op = "clear" /\ Len(history') = Len(history) + 1)
          => stats'.hits = 0 /\ stats'.misses = 0
     /\ get_cache_stats([local_cache |-> local_cache', redis |-> redis',
                         stats |-> stats']).total_requests
          = stats'.hits + stats'.misses
    ]_vars

\* C11 witness: three calls since the cache was built, two returned a vector
\* and the last ended in the error of the embedding function
C11_Witness ==
  /\ Len(history) = 3
  /\ \A i \in 1..3 : history[i].op = "get"
  /\ last.op = "get"
  /\ last.outcome = "EncodeError"
  /\ stats.hits = 1
  /\ stats.misses = 1
  /\ get_cache_stats(State).total_requests = 2

C13_Original ==
  (last.op = "cluster" /\ last.query \in {Q1Bed, QOneBedroom, Q1Bedroom})
    => last.value = << [prefix |-> "cluster", digest |-> <<"1bed", "apartment">>] >>

\* C14: _normalize_query and get_cache_key give the result of the call before
\* for a query that is the query of the call before with two words swapped,
\* a word in another letter case, a blank or a stop word added or removed;
\* and _normalize_query gives its own result back when applied to it.
C14_NormalizationStable ==
  [][(/\ last.op \in {"normalize", "key"}
      /\ last'.op = last.op
      /\ \/ last'.query \in Variants(last.query)
         \/ last.op = "normalize" /\ last'.query = last.value[1])
     => last'.value = last.value
    ]_vars

\* C14 witness: a query of the test with its words moved, a blank between
\* them, the case of two words changed, normalised to the words of the test
C14_Witness ==
  /\ last.op = "normalize"
  /\ last.query = <<"london", "", "modern", "apartment">>
  /\ last.value = << <<"apartment", "london", "modern">> >>

\* the entry of the local table under a key holds the vector, was stored now
\* and has not been hit
FreshLocal(lc, key, data, t) ==
  \E i \in 1..Len(lc) :
    /\ lc[i].key = key
    /\ lc[i].data = data
    /\ lc[i].timestamp = t
    /\ lc[i].hit_count = 0

\* the store as a setex call of the vector under the key leaves it: holding
\* the vector when the call went through, as it was when the call failed
WrittenTo(rd1, rd0, write, data) ==
  IF write.ok
  THEN write.key \in DOMAIN rd1 /\ rd1[write.key].data = data
  ELSE /\ write.key \in DOMAIN rd1 <=> write.key \in DOMAIN rd0
       /\ write.key \in DOMAIN rd0 => rd1[write.key] = rd0[write.key]

\* C15: a get_or_generate call that ends in cold generation returns the
\* generated vector, leaves it in the local table under the exact key, calls
\* the store's write for the exact key and then for the cluster key (each
\* leaves the vector in the store unless the store fails it), adds one to
\* misses and leaves hits and cost_saved as they were.
C15_FullMissStoresEverywhere ==
  [][(GetStep /\ last'.tier = "generate")
     => /\ last'.value = <<encode(last'.query, now)>>
        /\ FreshLocal(local_cache', get_cache_key(last'.query),
                      encode(last'.query, now), now)
        /\ Len(last'.writes) = 2
        /\ last'.writes[1].key = get_cache_key(last'.query)
        /\ last'.writes[2].key = _get_semantic_cluster_key(last'.query)
        /\ \A i \in 1..2 : WrittenTo(redis', redis, last'.writes[i],
                                     encode(last'.query, now))
        /\ \A k \in DOMAIN redis' :
             k \in {last'.writes[1].key, last'.writes[2].key} \/ k \in DOMAIN redis
        /\ stats'.misses = stats.misses + 1
        /\ stats'.hits = stats.hits
        /\ stats'.cost_saved = stats.cost_saved
    ]_vars

\* C15 witness: "premium flat london" was generated on an empty cache and
\* both store writes went through
C15_Witness ==
  /\ Len(history) = 1
  /\ last.op = "get"
  /\ last.query = QPremium
  /\ last.tier = "generate"
  /\ DOMAIN redis = {get_cache_key(QPremium), _get_semantic_cluster_key(QPremium)}
  /\ stats.misses = 1
  /\ stats.hits = 0

\* C16: when the local table has no live entry of the exact key, the read of
\* the store's exact key gives nothing (or fails) and the read of the cluster
\* key gives the vector the store holds, the call returns that vector without
\* invoking the embedding function, leaves it in the local table under the
\* exact key, calls the store's write of it under the exact key, and records
\* one hit and no miss.
C16_ClusterHitBackfills ==
  [][(/\ GetStep
      /\ ~LocalLive(get_cache_key(last'.query))
      /\ ~(InStore(get_cache_key(last'.query)) /\ ~ReadFailed(last'.probes, "exact"))
      /\ InStore(_get_semantic_cluster_key(last'.query))
      /\ ~ReadFailed(last'.probes, "cluster"))
     => /\ last'.outcome = "ok"
        /\ last'.tier = "cluster"
        /\ last'.value = <<redis[_get_semantic_cluster_key(last'.query)].data>>
        /\ last'.encodes = 0
        /\ FreshLocal(local_cache', get_cache_key(last'.query), last'.value[1], now)
        /\ Len(last'.writes) = 1
        /\ last'.writes[1].key = get_cache_key(last'.query)
        /\ WrittenTo(redis', redis, last'.writes[1], last'.value[1])
        /\ stats'.hits = stats.hits + 1
        /\ stats'.misses = stats.misses
    ]_vars

\* C16 witness: "premium flat london" was served from the cluster key that
\* "luxury apartment London" had filled, and is now in the store under its
\* own exact key
C16_Witness ==
  /\ last.op = "get"
  /\ last.query = QPremium
  /\ last.tier = "cluster"
  /\ last.value[1].of = QLuxury
  /\ get_cache_key(QPremium) \in DOMAIN redis
  /\ redis[get_cache_key(QPremium)].data = last.value[1]

\* C17: when the local table has no live entry of the exact key and the read
\* of the store's exact key gives the vector the store holds, the call returns
\* that vector, leaves it in the local table under the exact key with
\* hit_count 0, records one hit and no miss and writes nothing to the store.
C17_ExactHitFillsLocalOnly ==
  [][(/\ GetStep
      /\ ~LocalLive(get_cache_key(last'.query))
      /\ InStore(get_cache_key(last'.query))
      /\ ~ReadFailed(last'.probes, "exact"))
     => /\ last'.outcome = "ok"
        /\ last'.tier = "exact"
        /\ last'.value = <<redis[get_cache_key(last'.query)].data>>
        /\ last'.encodes = 0
        /\ FreshLocal(local_cache', get_cache_key(last'.query), last'.value[1], now)
        /\ last'.writes = <<>>
        /\ redis' = redis
        /\ stats'.hits = stats.hits + 1
        /\ stats'.misses = stats.misses
    ]_vars

\* C17 witness: a vector came out of the store's exact key into an empty
\* local table
C17_Witness ==
  /\ last.op = "get"
  /\ last.tier = "exact"
  /\ Len(local_cache) = 1
  /\ local_cache[1].hit_count = 0
  /\ local_cache[1].data = last.value[1]
  /\ stats.hits = 1
  /\ stats.misses = 0

\* C18: in every reachable state cost_saved is hits times
\* EMBEDDING_COST_PER_REQUEST.
C18_CostFollowsHits == stats.cost_saved = stats.hits * EMBEDDING_COST_PER_REQUEST

\* C18 witness: a miss, a local hit and a cluster hit have been counted
C18_Witness ==
  /\ last.op = "get"
  /\ last.tier = "cluster"
  /\ stats.misses = 1
  /\ stats.hits = 2
  /\ stats.cost_saved = 2 * EMBEDDING_COST_PER_REQUEST

\* C19 as claimed: hit_rate_percent (here in hundredths of a percent) is in
\* [0, 100], is 0 with no request, and otherwise is hits / (hits + misses)
\* * 100.
C19_Original ==
  /\ get_cache_stats(State).hit_rate_percent \in 0..10000
  /\ get_cache_stats(State).total_requests = 0
       => get_cache_stats(State).hit_rate_percent = 0
  /\ get_cache_stats(State).total_requests > 0
       => get_cache_stats(State).hit_rate_percent * (stats.hits + stats.misses)
            = stats.hits * 10000

\* C19 amended: hit_rate_percent is in [0, 100], is 0 with no request, and
\* otherwise is hits / (hits + misses) * 100 rounded to two decimals: within
\* half a hundredth of it.
C19_HitRateRounded ==
  /\ get_cache_stats(State).hit_rate_percent \in 0..10000
  /\ get_cache_stats(State).total_requests = 0
       => get_cache_stats(State).hit_rate_percent = 0
  /\ get_cache_stats(State).total_requests > 0
       => LET d == get_cache_stats(State).hit_rate_percent * (stats.hits + stats.misses)
                     - stats.hits * 10000
          IN  2 * d <= stats.hits + stats.misses /\ -2 * d <= stats.hits + stats.misses

\* C19 witness: one hit in three requests is reported as 33.33
C19_Witness ==
  /\ stats.hits = 1
  /\ stats.misses = 2
  /\ get_cache_stats(State).hit_rate_percent = 3333

\* C20: preload_common_queries calls get_or_generate once for each query of
\* its list, in the order of the list, whatever the calls before ended in;
\* it does not raise; a query whose call returned is in the local table
\* when it is the last of the list.
C20_PreloadCallsEveryQuery ==
  last.op = "preload" =>
    /\ last.outcome = "ok"
    /\ [i \in 1..Len(last.outcomes) |-> last.outcomes[i].query] = last.query
    /\ last.outcomes[Len(last.outcomes)].outcome = "ok"
         => get_cache_key(last.query[Len(last.query)]) \in Keys(local_cache)

\* C20 witness: the call for the first query of the list ended in the error
\* of the embedding function and the second query was generated
C20_Witness ==
  /\ last.op = "preload"
  /\ Len(last.outcomes) = 2
  /\ last.outcomes[1].outcome = "EncodeError"
  /\ last.outcomes[2].outcome = "ok"
  /\ local_cache # <<>>
  /\ local_cache[Len(local_cache)].key = get_cache_key(last.query[2])
  /\ stats.misses = 1

\* C21: a get_or_generate call runs the embedding function at most once;
\* when that run fails the call ends in that failure (no second run, no
\* vector), no miss and no hit is recorded, no store write is made and the
\* local table gains no entry (it can only lose the expired entry of the
\* key).
C21_EncodeFailurePropagates ==
  [][GetStep =>
       /\ last'.encodes \in {0, 1}
       /\ last'.outcome = "EncodeError" =>
            /\ last'.encodes = 1
            /\ last'.value = <<>>
            /\ stats' = stats
            /\ last'.writes = <<>>
            /\ redis' = redis
            /\ \A i \in 1..Len(local_cache') :
                 \E j \in 1..Len(local_cache) : local_cache[j] = local_cache'[i]
    ]_vars

\* C21 witness: the embedding function failed in a call made after a miss
\* had been recorded and written, for a key that is in no tier
C21_Witness ==
  /\ last.op = "get"
  /\ last.outcome = "EncodeError"
  /\ last.encodes = 1
  /\ Len(last.probes) = 3
  /\ stats.misses = 1
  /\ local_cache # <<>>
  /\ get_cache_key(last.query) \notin Keys(local_cache)

\* C24 as claimed: "luxury apartment London", "Luxury apartment in London",
\* "premium flat london" and "high-end apartment London" have one semantic
\* cluster key, that of the first of them.
C24_Original ==
  (last.op = "cluster" /\ last.query \in {QLuxury, QLuxuryIn, QPremium, QHighEnd})
    => last.value = <<_get_semantic_cluster_key(QLuxury)>>

\* C25 as claimed: the cached field of an /embed response is true exactly
\* when the get_or_generate call of that request was served from a cache
\* tier, and false when the request caused a cold generation.
C25_Original ==
  (last.op = "embed" /\ last.outcome = "ok")
    => (last.value[1].cached <=> last.tier \in {"local", "exact", "cluster"})

\* the cluster text of an exact key: that of the normalised words it hashes
ClusterOfKey(key) == sorted(ClusterWords(key.digest, <<>>))

\* the vector is the embedding function's output for a query that has been
\* requested and whose cluster text is the given one
VectorFits(vector, cluster) ==
  /\ \E i \in 1..Len(history) :
       history[i].op = "get" /\ history[i].query = vector.of
  /\ clustered_query(vector.of) = cluster

\* C26: the vector held under an exact key in the local table or in the
\* store, and the vector a get_or_generate(q) call returned, is the
\* embedding function's output for a requested query (q itself or an
\* earlier one) of the same semantic cluster as the key, or as q.
C26_VectorsStayInCluster ==
  /\ \A i \in 1..Len(local_cache) :
       VectorFits(local_cache[i].data, ClusterOfKey(local_cache[i].key))
  /\ \A key \in DOMAIN redis :
       key.prefix = "emb" => VectorFits(redis[key].data, ClusterOfKey(key))
  /\ (last.op = "get" /\ last.outcome = "ok")
       => VectorFits(last.value[1], clustered_query(last.query))

\* C26 witness: a query was served, by a cluster hit, the vector generated
\* for another query, and holds it under its exact key in both tiers, while
\* a vector of another cluster is in the local table as well
C26_Witness ==
  /\ last.op = "get"
  /\ last.tier = "cluster"
  /\ last.value[1].of # last.query
  /\ \E i \in 1..Len(local_cache) :
       /\ local_cache[i].key = get_cache_key(last.query)
       /\ local_cache[i].data = last.value[1]
  /\ get_cache_key(last.query) \in DOMAIN redis
  /\ redis[get_cache_key(last.query)].data = last.value[1]
  /\ \E i \in 1..Len(local_cache) :
       clustered_query(local_cache[i].data.of) # clustered_query(last.query)

\* C27 as claimed: a get_or_generate call never returns a vector that the
\* embedding function made more than CACHE_TTL seconds before the call.
C27_Original ==
  [][(GetStep /\ last'.outcome = "ok")
       => now - last'.value[1].at <= CACHE_TTL
    ]_vars

\* the call before was a clear_cache whose store scans and deletes all went
\* through
HealthyClear(call) ==
  call.op = "clear" /\ call.probes = <<[tier |-> "store", res |-> "ok"]>>

\* C30: a clear_cache that completed against a healthy store leaves no
\* vector in the local table or in the store, so none written before it can
\* be returned again; the next get_or_generate call, for any query and at
\* any later time, is served by no tier: it turns to the embedding function,
\* and the vector it returns is made during that call and recorded as the
\* one miss of the new epoch, with no hit.
C30_ClearForgetsVectors ==
  [][/\ HealthyClear(last') => (local_cache' = <<>> /\ redis' = <<>>)
     /\ (GetStep /\ HealthyClear(last)) =>
          /\ last'.tier \notin {"local", "exact", "cluster"}
          /\ \A i \in 1..Len(last'.probes) : last'.probes[i].res # "hit"
          /\ embedding_model => last'.encodes = 1
          /\ last'.outcome = "ok" =>
               /\ last'.tier = "generate"
               /\ last'.value = <<encode(last'.query, now)>>
               /\ stats'.misses = 1
               /\ stats'.hits = 0
    ]_vars

\* C30 witness: a query generated and written to both tiers at time 0 was
\* generated again, at a later time, right after a healthy clear_cache
C30_Witness ==
  /\ Len(history) = 3
  /\ history[1] = [op |-> "get", query |-> QLuxury]
  /\ history[2].op = "clear"
  /\ history[3] = [op |-> "get", query |-> QLuxury]
  /\ last.op = "get"
  /\ last.tier = "generate"
  /\ last.value[1].at > 0
  /\ stats.misses = 1
  /\ stats.hits = 0
  /\ Len(local_cache) = 1
  /\ local_cache[1].data = last.value[1]

\* the calls the threads have finished
Results == UNION {{threads[t].results[i] : i \in 1..Len(threads[t].results)} : t \in Threads}

\* the exceptions raised in the eviction of _store_in_local_cache
EvictionErrors(raised) ==
  {i \in 1..Len(raised) : raised[i].line \in {215, 217}}

\* C22 as claimed: every get_or_generate call that a thread is in eventually
\* returns a vector or fails to its caller, whether or not the store answers
\* the call the thread waits in.
C22_Original ==
  \A t \in Threads : (threads[t].pc # "idle") ~> (threads[t].pc = "idle")

\* C23 as claimed: a get_or_generate call that was in flight together with
\* calls for its own exact key only has returned a vector.
C23_Original ==
  \A r \in Results :
    r.overlap = {get_cache_key(r.query)} => r.outcome = "ok"

\* C28 as claimed: the local table holds at most max_local_cache_size
\* entries, and in no call that was in flight together with calls for other
\* keys did the eviction step raise.
C28_Original ==
  /\ Len(local_cache) <= max_local_cache_size
  /\ \A r \in Results :
       (r.overlap # {} /\ get_cache_key(r.query) \notin r.overlap)
         => EvictionErrors(r.raised) = {}

\* C29 as claimed: once the calls of both threads have completed, each with
\* a vector, hits + misses is the number of these calls.
C29_Original ==
  (AllIdle /\ \A r \in Results : r.outcome = "ok")
    => stats.hits + stats.misses
         = Len(threads["handler"].results) + Len(threads["preload"].results)

====
